---- MODULE Spec2Model ----
(***************************************************************************)
(* Verification model of scraper-leilao-caixa: the rate-limited HTTP       *)
(* client (caixa/httpClient.ts), the scrape run (scrapeCaixa) and the      *)
(* output-path handling of the web server.                                 *)
(***************************************************************************)
EXTENDS Integers, Sequences, FiniteSets, TLC

\* The web server: the request body, the route that handled it, the string
\* given to safeOutputCsvPath, the resulting path and the response status;
\* for the output routes the :name parameter and the paths given to readFile.
VARIABLES srvBody, srvRoute, srvInput, srvOutPath, srvStatus, srvName, srvRead

srvVars == <<srvBody, srvRoute, srvInput, srvOutPath, srvStatus, srvName, srvRead>>

\* The HTTP client: Date.now(), the options, the class of Math.random(),
\* the RateLimiter's fields, and per caller the position in request(), the
\* loop variables and the pending timers; the last lines are history.
VARIABLES now, opts, random, callers, nextAllowedAt, chain, pc, attempt, startedAt,
          aborted, wakeAt, respAt, last, lastIssueAt, prevIssueAt, attemptsMade,
          prevOutcome, attemptMs

httpVars == <<now, opts, random, callers, nextAllowedAt, chain, pc, attempt, startedAt,
              aborted, wakeAt, respAt, last, lastIssueAt, prevIssueAt, attemptsMade,
              prevOutcome, attemptMs>>

\* A scrapeCaixa run: its options, the position of the main coroutine, the
\* client call the main coroutine is waiting for, the search result, the
\* list-page tasks, the sorted rows, the detail tasks (the cache), the rows
\* to write, the files written and the value the run resolved with;
\* outOfOrder records that a page fetch completed before that of an earlier page.
VARIABLES scrOpts, phase, mainReq, sessionGetDone, searchIssued, searchStatus,
          hdnImovByPage, totalPages, tasks, results, detailTasks, finalItems, csv, returned,
          outOfOrder

scrVars == <<scrOpts, phase, mainReq, sessionGetDone, searchIssued, searchStatus,
             hdnImovByPage, totalPages, tasks, results, detailTasks, finalItems, csv, returned,
             outOfOrder>>

\* parseSearchResponse: the search response given to it and what it did.
VARIABLES searchHtml, parsed

parseVars == <<searchHtml, parsed>>

vars == <<srvVars, httpVars, scrVars, parseVars>>

(***************************************************************************)
(* Part I - web server: output paths                                        *)
(***************************************************************************)

\* Longest request string (outFileBase, uf) enumerated.
MaxNameLen == 3

\* Characters a request string is built from: "a" stands for an alphanumeric
\* character, " " for any character outside [a-zA-Z0-9._-] other than the
\* two path separators.
Alphabet == {"a", ".", "-", "/", "\\", " "}

Strings == UNION {[1..n -> Alphabet] : n \in 0..MaxNameLen}

\* A character class that lets the path separator through.
IsAllowedCharMutant(ch) == ch \in {"a", "c", "s", "v", "o", ".", "_", "-", "/"}

\* The character class [a-zA-Z0-9._-] of safeOutputCsvPath.
IsAllowedChar(ch) == ch \in {"a", "c", "s", "v", "o", ".", "_", "-"}

\* .replace(/[^a-zA-Z0-9._-]+/g, "-"): every maximal run of other characters
\* becomes one "-".
RECURSIVE ReplaceRuns(_, _)
ReplaceRuns(s, inRun) ==
  IF s = <<>> THEN <<>>
  ELSE IF IsAllowedChar(Head(s)) THEN <<Head(s)>> \o ReplaceRuns(Tail(s), FALSE)
  ELSE IF inRun THEN ReplaceRuns(Tail(s), TRUE)
  ELSE <<"-">> \o ReplaceRuns(Tail(s), TRUE)

\* .replace(/^-+/, "")
RECURSIVE StripLeadingDashes(_)
StripLeadingDashes(s) ==
  IF s # <<>> /\ Head(s) = "-" THEN StripLeadingDashes(Tail(s)) ELSE s

\* .replace(/-+$/, "")
RECURSIVE StripTrailingDashes(_)
StripTrailingDashes(s) ==
  IF s # <<>> /\ s[Len(s)] = "-"
  THEN StripTrailingDashes(SubSeq(s, 1, Len(s) - 1))
  ELSE s

\* const OUTPUT_DIR = path.join(ROOT, "output"), as path segments.
OUTPUT_DIR == << <<"ROOT">>, <<"o", "u", "t", "p", "u", "t">> >>

\* Splits a string at "/" into its segments.
RECURSIVE SplitSlash(_, _)
SplitSlash(s, cur) ==
  IF s = <<>> THEN <<cur>>
  ELSE IF Head(s) = "/" THEN <<cur>> \o SplitSlash(Tail(s), <<>>)
  ELSE SplitSlash(Tail(s), Append(cur, Head(s)))

\* path.normalize over segments: "" and "." are dropped, ".." removes the
\* segment before it.
RECURSIVE NormalizeSegs(_, _)
NormalizeSegs(segs, acc) ==
  IF segs = <<>> THEN acc
  ELSE IF Head(segs) = <<>> \/ Head(segs) = <<".">> THEN NormalizeSegs(Tail(segs), acc)
  ELSE IF Head(segs) = <<".", ".">>
    THEN NormalizeSegs(Tail(segs), IF acc = <<>> THEN acc ELSE SubSeq(acc, 1, Len(acc) - 1))
  ELSE NormalizeSegs(Tail(segs), Append(acc, Head(segs)))

\* path.join(dir, name)
PathJoin(dir, name) == NormalizeSegs(SplitSlash(name, <<>>), dir)

CsvExt == <<".", "c", "s", "v">>

\* `output-${Date.now()}`: alphanumerics, one "-", digits.
OutputTimestampName == <<"o", "-", "a">>

safeOutputCsvPath(fileBase) ==
  LET cleaned == StripTrailingDashes(StripLeadingDashes(ReplaceRuns(fileBase, FALSE)))
      name == IF Len(cleaned) # 0 THEN cleaned ELSE OutputTimestampName
  IN PathJoin(OUTPUT_DIR, name \o CsvExt)

\* `${cfg.uf}-${cfg.cidade}-${modalidade}-${tpImovel}-${Date.now()}`; uf and
\* cidade are free request strings, the rest is alphanumeric here.
DefaultFileBase(uf, cidade) == uf \o <<"-">> \o cidade \o <<"-", "a", "-", "a", "-", "a">>

\* Request bodies the schema accepts, as far as the output path depends on
\* them: outFileBase is optional, uf has at least two characters, cidade one.
ScrapeBodies ==
  [hasFileBase : {TRUE}, outFileBase : Strings, uf : {<<"a", "a">>}, cidade : {<<"a">>}]
  \cup [hasFileBase : {FALSE}, outFileBase : {<<>>},
        uf : {u \in Strings : Len(u) >= 2}, cidade : {<<"a">>, <<".", ".">>, <<"/">>}]

SrvInit ==
  /\ srvBody \in ScrapeBodies
  /\ srvRoute = "none"
  /\ srvInput = <<>>
  /\ srvOutPath = <<>>
  /\ srvStatus = 0
  /\ srvName = <<>>
  /\ srvRead = <<>>

\* app.post("/api/scrape"): the schema accepted the body; the job's output
\* path is computed from outFileBase, or from the default when it is absent
\* (cfg.outFileBase ?? default).
PostScrape ==
  /\ srvRoute = "none"
  /\ srvRoute' = "scrape"
  /\ srvInput' = IF srvBody.hasFileBase THEN srvBody.outFileBase
                 ELSE DefaultFileBase(srvBody.uf, srvBody.cidade)
  /\ srvOutPath' = safeOutputCsvPath(srvInput')
  /\ srvStatus' = 200
  /\ UNCHANGED <<srvBody, srvName, srvRead>>
  /\ UNCHANGED <<httpVars, scrVars, parseVars>>

SrvNext == PostScrape

\* A path is a direct child of output/.
IsDirectChildOfOutput(p) ==
  /\ Len(p) = Len(OUTPUT_DIR) + 1
  /\ SubSeq(p, 1, Len(OUTPUT_DIR)) = OUTPUT_DIR

EndsInCsv(p) ==
  /\ p # <<>>
  /\ Len(p[Len(p)]) >= Len(CsvExt)
  /\ SubSeq(p[Len(p)], Len(p[Len(p)]) - Len(CsvExt) + 1, Len(p[Len(p)])) = CsvExt

\* C10: every job started through POST /api/scrape gets an output path that
\* is a direct child of output/ and ends in .csv, whatever outFileBase is.
C10_OutPathInsideOutput ==
  srvRoute = "scrape" => IsDirectChildOfOutput(srvOutPath) /\ EndsInCsv(srvOutPath)

\* A request whose outFileBase tries to leave output/ ("../") was handled:
\* the file is output/...csv.
C10_Witness ==
  /\ srvRoute = "scrape"
  /\ srvBody.hasFileBase
  /\ srvInput = <<".", ".", "/">>
  /\ srvOutPath = OUTPUT_DIR \o << <<".", ".", ".", "c", "s", "v">> >>

\* Ways a requested file name ends: nothing, ".csv" in three spellings, a
\* cut extension, the letters without the dot, and ".csv" followed by more.
NameEndings ==
  {<<>>, <<".", "c", "s", "v">>, <<".", "C", "S", "V">>, <<".", "c", "S", "v">>,
   <<".", "c", "s">>, <<"c", "s", "v">>, <<".", "c", "s", "v", "a">>}

\* Values of the :name route parameter (URL-decoded, so it may hold "/").
FileNames == {pre \o end : pre \in Strings, end \in NameEndings}

\* String.prototype.includes for a one-character needle.
IncludesChar(s, ch) == \E i \in 1..Len(s) : s[i] = ch

\* fileName.includes("..")
IncludesDotDot(s) == \E i \in 1..(Len(s) - 1) : s[i] = "." /\ s[i + 1] = "."

\* toLowerCase() of one character.
LowerChar(ch) == IF ch = "C" THEN "c" ELSE IF ch = "S" THEN "s" ELSE IF ch = "V" THEN "v" ELSE ch

\* fileName.toLowerCase()
toLowerCase(s) == [i \in 1..Len(s) |-> LowerChar(s[i])]

\* s.endsWith(suffix)
endsWith(s, suffix) ==
  /\ Len(s) >= Len(suffix)
  /\ SubSeq(s, Len(s) - Len(suffix) + 1, Len(s)) = suffix

\* The null that safeOutputFileName returns.
NullName == <<"null">>

\* safeOutputFileName without the test for "/".
safeOutputFileNameMutant(fileName) ==
  IF IncludesChar(fileName, "\\") \/ IncludesDotDot(fileName) THEN NullName
  ELSE IF ~endsWith(toLowerCase(fileName), CsvExt) THEN NullName
  ELSE fileName

safeOutputFileName(fileName) ==
  IF IncludesChar(fileName, "/") \/ IncludesChar(fileName, "\\") \/ IncludesDotDot(fileName)
  THEN NullName
  ELSE IF ~endsWith(toLowerCase(fileName), CsvExt) THEN NullName
  ELSE fileName

\* The server about to handle a request for the output file srvName.
OutputsInit ==
  /\ srvBody = [hasFileBase |-> FALSE, outFileBase |-> <<>>, uf |-> <<"a", "a">>,
                cidade |-> <<"a">>]
  /\ srvRoute = "none"
  /\ srvInput = <<>>
  /\ srvOutPath = <<>>
  /\ srvStatus = 0
  /\ srvName \in FileNames
  /\ srvRead = <<>>

\* The common part of both output routes: 400 when the name is refused
\* (if (!safe) return res.status(400)), else readFile(path.join(OUTPUT_DIR, safe)).
ReadOutput ==
  LET safe == safeOutputFileName(srvName)
  IN /\ srvRoute = "none"
     /\ IF safe = NullName \/ safe = <<>>
        THEN srvStatus' = 400 /\ srvRead' = srvRead
        ELSE srvStatus' = 200 /\ srvRead' = Append(srvRead, PathJoin(OUTPUT_DIR, safe))
     /\ UNCHANGED <<srvBody, srvInput, srvOutPath, srvName>>
     /\ UNCHANGED <<httpVars, scrVars, parseVars>>

\* app.get("/api/outputs/:name")
GetOutput ==
  /\ srvRoute' = "outputs"
  /\ ReadOutput

\* app.get("/api/outputs/:name/json")
GetOutputJson ==
  /\ srvRoute' = "outputsJson"
  /\ ReadOutput

OutputsNext == GetOutput \/ GetOutputJson

\* The last four characters of a name spell ".csv" in some case.
SpellsCsv(s) ==
  /\ Len(s) >= 4
  /\ s[Len(s) - 3] = "."
  /\ s[Len(s) - 2] \in {"c", "C"}
  /\ s[Len(s) - 1] \in {"s", "S"}
  /\ s[Len(s)] \in {"v", "V"}

\* A name the output routes must refuse.
MustRefuse(s) ==
  \/ \E i \in 1..Len(s) : s[i] \in {"/", "\\"}
  \/ \E i \in 1..(Len(s) - 1) : <<s[i], s[i + 1]>> = <<".", ".">>
  \/ ~SpellsCsv(s)

\* C11: both output routes answer 400 and read no file when the name holds
\* "/", "\" or "..", or does not end in .csv in any case; every file they
\* read is a direct child of output/.
C11_OutputsGuarded ==
  srvRoute \in {"outputs", "outputsJson"} =>
    /\ MustRefuse(srvName) => srvStatus = 400 /\ srvRead = <<>>
    /\ \A i \in 1..Len(srvRead) : IsDirectChildOfOutput(srvRead[i])

\* A traversal name ending in .csv was refused by the JSON route.
C11_Witness ==
  /\ srvRoute = "outputsJson"
  /\ srvName = <<".", ".", "/", ".", "c", "s", "v">>
  /\ srvStatus = 400
  /\ srvRead = <<>>

\* An upper-case extension is served from output/.
C11_WitnessRead ==
  /\ srvRoute = "outputs"
  /\ srvName = <<"a", ".", "C", "S", "V">>
  /\ srvRead = << OUTPUT_DIR \o << <<"a", ".", "C", "S", "V">> >> >>

(***************************************************************************)
(* Part II - HttpClient: rate limiter, timeout, retry with backoff          *)
(*                                                                         *)
(* Time is the value of Date.now() in ms.  A step is one continuation of   *)
(* the event loop.  A timer or a network event is handled at or after its  *)
(* instant, at most MaxLate ms late.                                       *)
(***************************************************************************)

\* Concurrent callers of get/postForm on the one client.
NumCallers == 2
Callers == 1..NumCallers

\* Largest value of the retries option enumerated.
MaxRetries == 1

\* How late the event loop may run a due timer or network callback (ms).
MaxLate == 1

\* Option values enumerated (within the ranges of the CLI schema).
MinDelayChoices == {0, 1200}
TimeoutChoices == {1000}

\* HTTP statuses a server answers with.
Statuses == {200, 429, 500, 599, 600}

\* Time from issuing a request to its response being available (ms); the
\* larger one exceeds every timeout enumerated.
NetLatencies == {1, 2000}

None == -1

\* Math.floor(Math.random() * n), for a run whose random numbers are all
\* near 0, all near 1/2 or all near 1.
RandomBelow(n) == IF random = "low" THEN 0 ELSE IF random = "mid" THEN n \div 2 ELSE n - 1

\* function jitter(ms); Math.floor(ms * 0.2) is (ms * 2) \div 10
jitter(ms) ==
  LET delta == (ms * 2) \div 10
  IN ms - delta + RandomBelow(delta * 2 + 1)

\* A retry rule that retries every status from 400 on.
isRetryableStatusMutant(status) == status >= 400

\* function isRetryableStatus(status)
isRetryableStatus(status) == status = 429 \/ (status >= 500 /\ status <= 599)

RECURSIVE Pow2(_)
Pow2(n) == IF n = 0 THEN 1 ELSE 2 * Pow2(n - 1)

Min(a, b) == IF a <= b THEN a ELSE b
Max(a, b) == IF a >= b THEN a ELSE b

\* A base delay without the cap.
BackoffBaseUncapped(k) == 750 * Pow2(k)

\* const base = Math.min(30_000, 750 * Math.pow(2, attempt))
BackoffBase(k) == Min(30000, 750 * Pow2(k))

HttpInit ==
  /\ now = 0
  /\ opts \in [timeoutMs : TimeoutChoices, retries : 0..MaxRetries, minDelayMs : MinDelayChoices]
  /\ random \in {"low", "high"}
  /\ callers \in {1, NumCallers}
  /\ nextAllowedAt = 0
  /\ chain = <<>>
  /\ pc = [c \in Callers |-> "idle"]
  /\ attempt = [c \in Callers |-> 0]
  /\ startedAt = [c \in Callers |-> None]
  /\ aborted = [c \in Callers |-> FALSE]
  /\ wakeAt = [c \in Callers |-> None]
  /\ respAt = [c \in Callers |-> None]
  /\ last = [c \in Callers |-> None]
  /\ lastIssueAt = None
  /\ prevIssueAt = None
  /\ attemptsMade = [c \in Callers |-> 0]
  /\ prevOutcome = [c \in Callers |-> "none"]
  /\ attemptMs = [c \in Callers |-> None]

\* attemptOnce up to its first await: a fresh AbortController, the timeout
\* timer is started, and limiter.schedule queues behind the previous holder
\* of the chain (await prev).
BeginAttempt(c, k) ==
  /\ attempt' = [attempt EXCEPT ![c] = k]
  /\ startedAt' = [startedAt EXCEPT ![c] = now]
  /\ aborted' = [aborted EXCEPT ![c] = FALSE]
  /\ attemptsMade' = [attemptsMade EXCEPT ![c] = @ + 1]
  /\ chain' = Append(chain, c)
  /\ pc' = [pc EXCEPT ![c] = "chain"]

\* get(path) / postForm(path, form): request() enters its loop with attempt 0.
\* Callers are interchangeable: they are numbered in the order they call.
request(c) ==
  /\ UNCHANGED <<srvVars, scrVars, parseVars>>
  /\ c <= callers
  /\ pc[c] = "idle"
  /\ \A b \in Callers : b < c => pc[b] # "idle"
  /\ BeginAttempt(c, 0)
  /\ UNCHANGED <<now, opts, random, callers, nextAllowedAt, wakeAt, respAt, last, lastIssueAt,
                 prevIssueAt, prevOutcome, attemptMs>>

\* fn() of schedule: this.fetchImpl(url, fetchInit).  With the signal already
\* aborted fetch rejects without a request; otherwise the request is issued
\* now and its response becomes available after the network latency.
\* The attempt's outcome "threw" leads to the catch branch of request().
IssueOrReject(c, lat) ==
  IF aborted[c]
  THEN /\ prevOutcome' = [prevOutcome EXCEPT ![c] = "threw"]
       /\ attemptMs' = [attemptMs EXCEPT ![c] = now - startedAt[c]]
       /\ wakeAt' = [wakeAt EXCEPT ![c] = now + jitter(BackoffBase(attempt[c]))]
       /\ pc' = [pc EXCEPT ![c] = "backoff"]
       /\ UNCHANGED <<respAt, lastIssueAt, prevIssueAt>>
  ELSE /\ respAt' = [respAt EXCEPT ![c] = now + lat]
       /\ prevIssueAt' = lastIssueAt
       /\ lastIssueAt' = now
       /\ wakeAt' = [wakeAt EXCEPT ![c] = None]
       /\ pc' = [pc EXCEPT ![c] = "fetching"]
       /\ UNCHANGED <<prevOutcome, attemptMs>>

\* RateLimiter.schedule after `await prev`: the slot is computed and the
\* chain released; with waitMs = 0 fn() runs at once, else after sleep(waitMs).
scheduleSlot(c) ==
  /\ UNCHANGED <<srvVars, scrVars, parseVars>>
  /\ chain # <<>> /\ Head(chain) = c
  /\ pc[c] = "chain"
  /\ LET waitMs == Max(0, nextAllowedAt - now)
     IN /\ nextAllowedAt' = Max(nextAllowedAt, now) + opts.minDelayMs
        /\ chain' = Tail(chain)
        /\ IF waitMs > 0
           THEN /\ wakeAt' = [wakeAt EXCEPT ![c] = now + waitMs]
                /\ pc' = [pc EXCEPT ![c] = "limiterSleep"]
                /\ UNCHANGED <<respAt, lastIssueAt, prevIssueAt, prevOutcome, attemptMs>>
           ELSE \E lat \in NetLatencies :
                  IssueOrReject(c, lat)
  /\ UNCHANGED <<now, opts, random, callers, attempt, startedAt, aborted, last, attemptsMade>>

\* RateLimiter.schedule after `await sleep(waitMs)`: fn() runs.
scheduleWake(c) ==
  /\ UNCHANGED <<srvVars, scrVars, parseVars>>
  /\ pc[c] = "limiterSleep"
  /\ now >= wakeAt[c]
  /\ \E lat \in NetLatencies :
       IssueOrReject(c, lat)
  /\ UNCHANGED <<now, opts, random, callers, nextAllowedAt, chain, attempt, startedAt, aborted, last,
                 attemptsMade>>

\* The timeout timer of attemptOnce fires: controller.abort().  A fetch in
\* flight rejects (catch branch: backoff); a caller still sleeping in the
\* limiter is not woken.
abortTimer(c) ==
  /\ UNCHANGED <<srvVars, scrVars, parseVars>>
  /\ pc[c] \in {"limiterSleep", "fetching"}
  /\ ~aborted[c]
  /\ now >= startedAt[c] + opts.timeoutMs
  /\ aborted' = [aborted EXCEPT ![c] = TRUE]
  /\ IF pc[c] = "fetching"
     THEN /\ prevOutcome' = [prevOutcome EXCEPT ![c] = "threw"]
          /\ attemptMs' = [attemptMs EXCEPT ![c] = now - startedAt[c]]
          /\ wakeAt' = [wakeAt EXCEPT ![c] = now + jitter(BackoffBase(attempt[c]))]
          /\ pc' = [pc EXCEPT ![c] = "backoff"]
     ELSE UNCHANGED <<prevOutcome, attemptMs, wakeAt, pc>>
  /\ respAt' = [respAt EXCEPT ![c] = None]
  /\ UNCHANGED <<now, opts, random, callers, nextAllowedAt, chain, attempt, startedAt, last,
                 lastIssueAt, prevIssueAt, attemptsMade>>

\* attemptOnce returns { status, text } (finally: clearTimeout); request()
\* returns it unless the status is retryable, else sleeps jitter(base).
fetchResponse(c) ==
  /\ UNCHANGED <<srvVars, scrVars, parseVars>>
  /\ pc[c] = "fetching"
  /\ now >= respAt[c]
  /\ \E status \in Statuses :
       /\ last' = [last EXCEPT ![c] = status]
       /\ prevOutcome' = [prevOutcome EXCEPT ![c] = "response"]
       /\ attemptMs' = [attemptMs EXCEPT ![c] = now - startedAt[c]]
       /\ IF ~isRetryableStatus(status)
          THEN /\ pc' = [pc EXCEPT ![c] = "returned"]
               /\ UNCHANGED wakeAt
          ELSE /\ wakeAt' = [wakeAt EXCEPT ![c] = now + jitter(BackoffBase(attempt[c]))]
               /\ pc' = [pc EXCEPT ![c] = "backoff"]
  /\ respAt' = [respAt EXCEPT ![c] = None]
  /\ UNCHANGED <<now, opts, random, callers, nextAllowedAt, chain, attempt, startedAt, aborted,
                 lastIssueAt, prevIssueAt, attemptsMade>>

\* fetch or res.text() rejects (network error): the catch branch of request().
fetchThrows(c) ==
  /\ UNCHANGED <<srvVars, scrVars, parseVars>>
  /\ pc[c] = "fetching"
  /\ now >= respAt[c]
  /\ prevOutcome' = [prevOutcome EXCEPT ![c] = "threw"]
  /\ attemptMs' = [attemptMs EXCEPT ![c] = now - startedAt[c]]
  /\ wakeAt' = [wakeAt EXCEPT ![c] = now + jitter(BackoffBase(attempt[c]))]
  /\ pc' = [pc EXCEPT ![c] = "backoff"]
  /\ respAt' = [respAt EXCEPT ![c] = None]
  /\ UNCHANGED <<now, opts, random, callers, nextAllowedAt, chain, attempt, startedAt, aborted,
                 last, lastIssueAt, prevIssueAt, attemptsMade>>

\* After the backoff sleep: attempt++, and either the next attempt or the
\* end of the loop (return last, or throw when there never was a response).
backoffWake(c) ==
  /\ UNCHANGED <<srvVars, scrVars, parseVars>>
  /\ pc[c] = "backoff"
  /\ now >= wakeAt[c]
  /\ IF attempt[c] + 1 <= opts.retries
     THEN BeginAttempt(c, attempt[c] + 1)
     ELSE /\ attempt' = [attempt EXCEPT ![c] = @ + 1]
          /\ pc' = [pc EXCEPT ![c] = IF last[c] # None THEN "returned" ELSE "thrown"]
          /\ UNCHANGED <<startedAt, aborted, attemptsMade, chain>>
  /\ wakeAt' = [wakeAt EXCEPT ![c] = None]
  /\ UNCHANGED <<now, opts, random, callers, nextAllowedAt, respAt, last, lastIssueAt,
                 prevIssueAt, prevOutcome, attemptMs>>

\* Instants at which a pending timer or network event of caller c is due.
Deadlines(c) ==
  (IF pc[c] \in {"limiterSleep", "backoff"} THEN {wakeAt[c]} ELSE {})
  \cup (IF pc[c] = "fetching" THEN {respAt[c]} ELSE {})
  \cup (IF pc[c] \in {"limiterSleep", "fetching"} /\ ~aborted[c]
        THEN {startedAt[c] + opts.timeoutMs} ELSE {})

AllDeadlines == UNION {Deadlines(c) : c \in Callers}

\* Time passes: to the next pending instant, or by 1 ms while something due
\* has not run yet.  Promise continuations (the limiter's chain) run before
\* any time passes.
Tick ==
  /\ UNCHANGED <<srvVars, scrVars, parseVars>>
  /\ chain = <<>>
  /\ \E t \in {d \in AllDeadlines : d > now /\ \A e \in AllDeadlines : e > now => d <= e}
            \cup {now + 1 : d \in {e \in AllDeadlines : e <= now}} :
       /\ \A d \in AllDeadlines : d <= now => t <= d + MaxLate
       /\ now' = t
  /\ UNCHANGED <<opts, random, callers, nextAllowedAt, chain, pc, attempt, startedAt, aborted, wakeAt,
                 respAt, last, lastIssueAt, prevIssueAt, attemptsMade, prevOutcome,
                 attemptMs>>

HttpNext ==
  \/ \E c \in Callers : request(c)
  \/ \E c \in Callers : scheduleSlot(c)
  \/ \E c \in Callers : scheduleWake(c)
  \/ \E c \in Callers : abortTimer(c)
  \/ \E c \in Callers : fetchResponse(c)
  \/ \E c \in Callers : fetchThrows(c)
  \/ \E c \in Callers : backoffWake(c)
  \/ Tick

\* C1: two successive HTTP requests of one client are issued at least
\* minDelayMs apart, whatever the interleaving of callers and retries.
C1_RequestsSpaced ==
  prevIssueAt # None => lastIssueAt - prevIssueAt >= opts.minDelayMs

\* What the limiter does guarantee: the spacing falls short of minDelayMs by
\* no more than the lateness of the timers.
C1_SpacedUpToLateness ==
  prevIssueAt # None => lastIssueAt - prevIssueAt >= opts.minDelayMs - MaxLate

\* The status of the attempt that ended last is 429 or in 500..599.
LastStatusAsksRetry(c) == last[c] = 429 \/ (last[c] >= 500 /\ last[c] <= 599)

\* C2: request makes at most retries+1 attempts; a further attempt starts
\* only after an attempt that returned 429 or 500..599 or threw; a response
\* with any other status is returned at once, with no further attempt.
C2_RetryPolicy ==
  /\ [](\A c \in Callers :
         /\ attemptsMade[c] <= opts.retries + 1
         /\ (prevOutcome[c] = "response" /\ ~LastStatusAsksRetry(c)) => pc[c] = "returned")
  /\ [][\A c \in Callers :
         attemptsMade'[c] # attemptsMade[c] =>
           /\ attemptsMade'[c] = attemptsMade[c] + 1
           /\ attemptsMade[c] = 0
              \/ prevOutcome[c] = "threw"
              \/ (prevOutcome[c] = "response" /\ LastStatusAsksRetry(c))]_httpVars

\* A caller used every attempt it is allowed (retries = 1): a 500 was
\* answered twice and the second one is what request returned.
C2_Witness ==
  \E c \in Callers :
    /\ opts.retries = 1
    /\ attemptsMade[c] = 2
    /\ pc[c] = "returned"
    /\ last[c] = 500

\* C9: every attempt ends (with a response or as a failed attempt) at most
\* timeoutMs after it began - stated here with the lateness of the timeout
\* timer itself allowed for.
C9_AttemptWithinTimeout ==
  \A c \in Callers : attemptMs[c] # None => attemptMs[c] <= opts.timeoutMs + MaxLate

(***************************************************************************)
(* The loop of request() when every attempt fails as soon as it is made:   *)
(* the sequence of backoff sleeps for every value of retries the schemas   *)
(* admit.                                                                  *)
(***************************************************************************)

\* retries: z.number().int().min(0).max(8)
MaxRetriesAllowed == 8

\* A client with one caller whose request() has entered its loop.
BackoffInit ==
  /\ now = 0
  /\ opts \in [timeoutMs : TimeoutChoices, retries : 0..MaxRetriesAllowed, minDelayMs : {0}]
  /\ random \in {"low", "mid", "high"}
  /\ callers = 1
  /\ nextAllowedAt = 0
  /\ chain = <<>>
  /\ pc = [c \in Callers |-> IF c = 1 THEN "attempt" ELSE "idle"]
  /\ attempt = [c \in Callers |-> 0]
  /\ startedAt = [c \in Callers |-> None]
  /\ aborted = [c \in Callers |-> FALSE]
  /\ wakeAt = [c \in Callers |-> None]
  /\ respAt = [c \in Callers |-> None]
  /\ last = [c \in Callers |-> None]
  /\ lastIssueAt = None
  /\ prevIssueAt = None
  /\ attemptsMade = [c \in Callers |-> IF c = 1 THEN 1 ELSE 0]
  /\ prevOutcome = [c \in Callers |-> "none"]
  /\ attemptMs = [c \in Callers |-> None]

\* The attempt ends with a retryable status (last is set) or throws (the
\* catch branch): either way sleep(jitter(base)) begins.
attemptFails ==
  /\ pc[1] = "attempt"
  /\ \/ /\ \E status \in {st \in Statuses : isRetryableStatus(st)} :
             last' = [last EXCEPT ![1] = status]
        /\ prevOutcome' = [prevOutcome EXCEPT ![1] = "response"]
     \/ /\ prevOutcome' = [prevOutcome EXCEPT ![1] = "threw"]
        /\ UNCHANGED last
  /\ wakeAt' = [wakeAt EXCEPT ![1] = now + jitter(BackoffBase(attempt[1]))]
  /\ pc' = [pc EXCEPT ![1] = "backoff"]
  /\ UNCHANGED <<now, opts, random, callers, nextAllowedAt, chain, attempt, startedAt, aborted,
                 respAt, lastIssueAt, prevIssueAt, attemptsMade, attemptMs>>
  /\ UNCHANGED <<srvVars, scrVars, parseVars>>

\* The sleep is over: attempt++, then the next attempt or the end of the loop.
backoffOver ==
  /\ pc[1] = "backoff"
  /\ now' = wakeAt[1]
  /\ attempt' = [attempt EXCEPT ![1] = @ + 1]
  /\ IF attempt[1] + 1 <= opts.retries
     THEN /\ pc' = [pc EXCEPT ![1] = "attempt"]
          /\ attemptsMade' = [attemptsMade EXCEPT ![1] = @ + 1]
     ELSE /\ pc' = [pc EXCEPT ![1] = IF last[1] # None THEN "returned" ELSE "thrown"]
          /\ UNCHANGED attemptsMade
  /\ UNCHANGED <<opts, random, callers, nextAllowedAt, chain, startedAt, aborted, wakeAt,
                 respAt, last, lastIssueAt, prevIssueAt, prevOutcome, attemptMs>>
  /\ UNCHANGED <<srvVars, scrVars, parseVars>>

BackoffNext == attemptFails \/ backoffOver

\* min(30000, 750 * 2^k)
CappedDelay(k) == IF 750 * 2^k > 30000 THEN 30000 ELSE 750 * 2^k

\* C17: the sleep after failed attempt k lasts within 20% of
\* min(30000, 750 * 2^k) ms, the last permitted attempt included; the base
\* doubles per attempt up to 30000, never decreases and never exceeds 30000;
\* the loop ends only after retries + 1 attempts and as many sleeps.
C17_BackoffDelay ==
  /\ pc[1] = "backoff" =>
       /\ attempt[1] <= opts.retries
       /\ 5 * (wakeAt[1] - now) >= 4 * CappedDelay(attempt[1])
       /\ 5 * (wakeAt[1] - now) <= 6 * CappedDelay(attempt[1])
       /\ BackoffBase(attempt[1]) = CappedDelay(attempt[1])
       /\ BackoffBase(attempt[1]) <= 30000
       /\ attempt[1] > 0 =>
            /\ BackoffBase(attempt[1]) >= BackoffBase(attempt[1] - 1)
            /\ BackoffBase(attempt[1]) \in {2 * BackoffBase(attempt[1] - 1), 30000}
  /\ pc[1] \in {"returned", "thrown"} =>
       /\ attempt[1] = opts.retries + 1
       /\ attemptsMade[1] = opts.retries + 1
       /\ now >= 600 * attemptsMade[1]

\* The ninth attempt (k = 8, retries = 8) failed and the client sleeps the
\* capped 30000 ms plus 20%.
C17_Witness ==
  /\ pc[1] = "backoff"
  /\ opts.retries = MaxRetriesAllowed
  /\ attempt[1] = opts.retries
  /\ wakeAt[1] - now = 36000

(***************************************************************************)
(* Part III - scrapeCaixa: search, list pages, details, CSV                 *)
(*                                                                         *)
(* Time is left out here: a request is issued when its attempt begins, and *)
(* an attempt or a backoff sleep ends at any later step.                    *)
(***************************************************************************)

\* Largest number of hdnImov{N} tokens a search response carries.
MaxPagesFound == 2

\* Largest number of cards on all list pages of the site together.
MaxCards == 2

\* Largest size of either worker pool enumerated.
MaxConcurrency == 2

\* imovelId values on the site, as digit strings: "9" and "10".
Ids == {<<9>>, <<1, 0>>}

\* Statuses the site answers a scrape run with.
SiteStatuses == {200, 404, 500}

\* The cards of one list page, in document order, by imovelId.
PageContents == UNION {[1..n -> Ids] : n \in 0..MaxCards}

\* The value of hdnImov{k} in the search response.
TokenOf(k) == 100 + k

\* const COLUMNS of writeCsv
COLUMNS == <<"imovelId", "uf", "cidadeId", "titulo", "modalidade", "tipoImovel",
             "areaUtilM2", "quartos", "vagas", "valorAvaliacao", "valorMinimo",
             "descontoPercent", "enderecoRaw", "observacoesRaw", "page">>

\* The keys scrapeCaixa adds to a row, by the field of the detail extract
\* they are taken from.
DetailRowKey ==
  [matriculaPdfUrl |-> "matriculaPdfUrl",
   galeriaFotoFilenames |-> "galeriaFotoFilenames",
   galeriaFotoUrls |-> "galeriaFotoUrls",
   tipoImovel |-> "detalheTipoImovel",
   quartos |-> "detalheQuartos",
   garagem |-> "detalheGaragem",
   numeroImovel |-> "detalheNumeroImovel",
   matriculas |-> "detalheMatriculas",
   comarca |-> "detalheComarca",
   oficio |-> "detalheOficio",
   inscricaoImobiliaria |-> "detalheInscricaoImobiliaria",
   averbacaoLeiloesNegativos |-> "detalheAverbacaoLeiloesNegativos",
   areaTotalM2 |-> "detalheAreaTotalM2",
   areaPrivativaM2 |-> "detalheAreaPrivativaM2",
   endereco |-> "detalheEndereco",
   descricao |-> "detalheDescricao",
   formasPagamentoRaw |-> "detalheFormasPagamentoRaw",
   aceitaRecursosProprios |-> "detalheAceitaRecursosProprios",
   aceitaFGTS |-> "detalheAceitaFGTS",
   aceitaFinanciamento |-> "detalheAceitaFinanciamento"]

\* What parseDetailPageHtml extracts: the fields found on the page, here a
\* page with none of them or with all of them.
DetailExtracts == {{}, DOMAIN DetailRowKey}

\* The retries option of a run: requests that are never retried and
\* requests that are retried once.
RetriesChoices == {0, 1}

\* Options of a run, within the ranges of the schemas; maxPages = 0 stands
\* for an absent maxPages (a given one is at least 1).
ScrapeOptions ==
  [concurrency : 1..MaxConcurrency, detailsConcurrency : 1..MaxConcurrency,
   maxPages : 0..MaxPagesFound, withDetails : BOOLEAN, retries : RetriesChoices]

\* A call of request() in its loop: st is "attempt" (the attempt is in
\* flight), "backoff" (sleeping after a failed attempt), "returned" or
\* "thrown"; last is the status of the last response, if any.
NewRequest == [st |-> "attempt", attempt |-> 0, last |-> None]

NoRequest == [st |-> "none", attempt |-> 0, last |-> None]

\* request(): the attempt returned a response.
AfterResponse(r, status) ==
  IF ~isRetryableStatus(status)
  THEN [r EXCEPT !.st = "returned", !.last = status]
  ELSE [r EXCEPT !.st = "backoff", !.last = status]

\* request(): the attempt threw.
AfterThrow(r) == [r EXCEPT !.st = "backoff"]

\* request(): the backoff sleep is over; the loop goes on or ends.
AfterBackoff(r, retries) ==
  IF r.attempt + 1 <= retries
  THEN [r EXCEPT !.attempt = @ + 1, !.st = "attempt"]
  ELSE [r EXCEPT !.attempt = @ + 1, !.st = IF r.last # None THEN "returned" ELSE "thrown"]

ScrInit ==
  /\ scrOpts \in ScrapeOptions
  /\ phase = "init"
  /\ mainReq = NoRequest
  /\ sessionGetDone = FALSE
  /\ searchIssued = FALSE
  /\ searchStatus = None
  /\ hdnImovByPage = <<>>
  /\ totalPages = 0
  /\ tasks = <<>>
  /\ results = <<>>
  /\ detailTasks = <<>>
  /\ finalItems = <<>>
  /\ csv = <<>>
  /\ returned = None
  /\ outOfOrder = FALSE

\* const totalPages = opts.maxPages ? Math.min(opts.maxPages, n) : n, ignoring maxPages
TotalPagesMutant(maxPages, found) == found

\* const totalPages = opts.maxPages ? Math.min(opts.maxPages, n) : n
TotalPages(maxPages, found) == IF maxPages # 0 THEN Min(maxPages, found) ELSE found

\* The for loop over idx < totalPages: one queued task per page whose token
\* exists (if (!hdnImov) continue).
RECURSIVE CreateTasks(_, _, _)
CreateTasks(tokens, total, page) ==
  IF page > total THEN <<>>
  ELSE (IF page <= Len(tokens)
        THEN << [page |-> page, hdnImov |-> tokens[page], st |-> "queued",
                 req |-> NoRequest, items |-> <<>>, failed |-> FALSE] >>
        ELSE <<>>)
       \o CreateTasks(tokens, total, page + 1)

\* A comparison of the ids as numbers: the shorter digit string first.
RECURSIVE StrLessNumeric(_, _)
StrLessNumeric(a, b) ==
  IF Len(a) # Len(b) THEN Len(a) < Len(b)
  ELSE IF a = <<>> THEN FALSE
  ELSE IF Head(a) # Head(b) THEN Head(a) < Head(b)
  ELSE StrLessNumeric(Tail(a), Tail(b))

\* a.localeCompare(b) < 0 for digit strings: by character, a proper prefix first.
RECURSIVE StrLess(_, _)
StrLess(a, b) ==
  IF b = <<>> THEN FALSE
  ELSE IF a = <<>> THEN TRUE
  ELSE IF Head(a) # Head(b) THEN Head(a) < Head(b)
  ELSE StrLess(Tail(a), Tail(b))

\* The comparator of results.sort: a sorts strictly before b.
SortsBefore(a, b) ==
  \/ a.page < b.page
  \/ a.page = b.page /\ StrLess(a.imovelId, b.imovelId)

\* Inserts x after every element that does not sort after it (stable).
RECURSIVE InsertSorted(_, _)
InsertSorted(x, sorted) ==
  IF sorted = <<>> THEN <<x>>
  ELSE IF SortsBefore(x, Head(sorted)) THEN <<x>> \o sorted
  ELSE <<Head(sorted)>> \o InsertSorted(x, Tail(sorted))

\* results.sort(...)
RECURSIVE SortItems(_)
SortItems(items) ==
  IF items = <<>> THEN <<>>
  ELSE InsertSorted(items[Len(items)], SortItems(SubSeq(items, 1, Len(items) - 1)))

\* A flattening that keeps one row per imovelId.
RECURSIVE FlattenPagesMutant(_)
FlattenPagesMutant(ts) ==
  IF ts = <<>> THEN <<>>
  ELSE LET rest == FlattenPagesMutant(SubSeq(ts, 1, Len(ts) - 1))
           new == SelectSeq(ts[Len(ts)].items,
                            LAMBDA it : \A i \in 1..Len(rest) : rest[i].imovelId # it.imovelId)
       IN rest \o (IF new = <<>> THEN <<>> ELSE <<new[1]>>)

\* for (const p of pages) results.push(...p)
RECURSIVE FlattenPages(_)
FlattenPages(ts) ==
  IF ts = <<>> THEN <<>> ELSE ts[1].items \o FlattenPages(Tail(ts))

\* A getDetail without the cache: one detail task per row.
DetailIdsPerRow(rows) == [i \in 1..Len(rows) |-> rows[i].imovelId]

\* Only the ids of the first page get a detail task.
DetailIdsMutant(rows) ==
  LET first == SelectSeq(rows, LAMBDA it : it.page = 1)
  IN IF first = <<>> THEN <<>> ELSE <<first[1].imovelId>>

\* results.map(item => getDetail(item.imovelId)) with the cache: the distinct
\* ids of the rows, in the order they first occur.
RECURSIVE DetailIds(_)
DetailIds(rows) ==
  IF rows = <<>> THEN <<>>
  ELSE LET before == DetailIds(SubSeq(rows, 1, Len(rows) - 1))
           id == rows[Len(rows)].imovelId
       IN IF \E i \in 1..Len(before) : before[i] = id THEN before ELSE Append(before, id)

\* Promise.all settling as soon as one task has fulfilled.
AllFulfilledMutant(ts) == \E k \in 1..Len(ts) : ts[k].st = "fulfilled"

\* await Promise.all(tasks) resolves: every task has fulfilled.
AllFulfilled(ts) == \A k \in 1..Len(ts) : ts[k].st = "fulfilled"

\* A task that gives its slot back while its request sleeps between attempts.
HoldsSlotMutant(t) == t.st = "running" /\ t.req.st = "attempt"

\* A task holds a slot of its pool from its start until it settles: the
\* pool awaits the task's promise, retries and backoff sleeps included.
HoldsSlot(t) == t.st = "running"

Running(ts) == {k \in 1..Len(ts) : HoldsSlot(ts[k])}

\* const limit = pLimit(opts.concurrency)
limit == scrOpts.concurrency

\* const limitDetails = pLimit(opts.detailsConcurrency)
limitDetails == scrOpts.detailsConcurrency

\* The detail extract a row gets: that of the task of its imovelId.
DetailOf(dts, id) ==
  LET j == CHOOSE j \in 1..Len(dts) : dts[j].imovelId = id
  IN dts[j].detail

\* The object built for a row in results.map: the item plus, for every
\* field of the detail extract, its key.
MergeDetail(item, d) ==
  [imovelId |-> item.imovelId, page |-> item.page,
   detailKeys |-> {DetailRowKey[f] : f \in d}]

\* The rows without details (finalItems = results).
PlainRow(item) == [imovelId |-> item.imovelId, page |-> item.page, detailKeys |-> {}]

\* stringify(items, { header: true, columns: COLUMNS }): the header and, per
\* row, the keys of the row that are columns.
Stringify(items) ==
  [columns |-> COLUMNS,
   rows |-> [i \in 1..Len(items) |->
              [imovelId |-> items[i].imovelId, page |-> items[i].page,
               detailKeys |-> {k \in items[i].detailKeys :
                                 \E c \in 1..Len(COLUMNS) : COLUMNS[c] = k}]]]

\* scrapeCaixa is called: the client is created and runSearch awaits the
\* session GET.
scrapeCaixa ==
  /\ phase = "init"
  /\ phase' = "sessionGet"
  /\ mainReq' = NewRequest
  /\ UNCHANGED <<scrOpts, sessionGetDone, searchIssued, searchStatus, hdnImovByPage, totalPages, tasks,
                 results, detailTasks, finalItems, csv, returned>>
  /\ UNCHANGED <<outOfOrder, srvVars, httpVars, parseVars>>

\* The continuation of runSearch after client.get returned (any status):
\* the search POST is issued.  A GET that threw rejects the run.
AfterSessionGet(r) ==
  IF r.st = "returned"
  THEN /\ sessionGetDone' = TRUE
       /\ phase' = "searchPost"
       /\ mainReq' = NewRequest
       /\ searchIssued' = TRUE
  ELSE IF r.st = "thrown"
  THEN /\ phase' = "rejected"
       /\ mainReq' = NoRequest
       /\ UNCHANGED <<sessionGetDone, searchIssued>>
  ELSE /\ mainReq' = r
       /\ UNCHANGED <<phase, sessionGetDone, searchIssued>>

sessionGetResponse ==
  /\ phase = "sessionGet" /\ mainReq.st = "attempt"
  /\ \E status \in SiteStatuses : AfterSessionGet(AfterResponse(mainReq, status))
  /\ UNCHANGED <<scrOpts, searchStatus, hdnImovByPage, totalPages, tasks,
                 results, detailTasks, finalItems, csv, returned>>
  /\ UNCHANGED <<outOfOrder, srvVars, httpVars, parseVars>>

sessionGetThrows ==
  /\ phase = "sessionGet" /\ mainReq.st = "attempt"
  /\ AfterSessionGet(AfterThrow(mainReq))
  /\ UNCHANGED <<scrOpts, searchStatus, hdnImovByPage, totalPages, tasks,
                 results, detailTasks, finalItems, csv, returned>>
  /\ UNCHANGED <<outOfOrder, srvVars, httpVars, parseVars>>

sessionGetBackoff ==
  /\ phase = "sessionGet" /\ mainReq.st = "backoff"
  /\ AfterSessionGet(AfterBackoff(mainReq, scrOpts.retries))
  /\ UNCHANGED <<scrOpts, searchStatus, hdnImovByPage, totalPages, tasks,
                 results, detailTasks, finalItems, csv, returned>>
  /\ UNCHANGED <<outOfOrder, srvVars, httpVars, parseVars>>

\* A check that lets client errors through.
SearchFailedMutant(status) == status >= 500

\* if (res.status !== 200) throw new Error(`Search failed: HTTP ...`)
SearchFailed(status) == status # 200

\* The continuation of runSearch and scrapeCaixa after the search POST
\* returned: a status other than 200 throws 'Search failed';
\* parseSearchResponse throws or yields the tokens hdnImov1..N; then
\* totalPages is computed and the page tasks are handed to the pool.
AfterSearchPost(r) ==
  IF r.st = "returned"
  THEN /\ searchStatus' = r.last
       /\ mainReq' = NoRequest
       /\ IF SearchFailed(r.last)
          THEN /\ phase' = "rejected"
               /\ UNCHANGED <<hdnImovByPage, totalPages, tasks>>
          ELSE \/ /\ phase' = "rejected"
                  /\ UNCHANGED <<hdnImovByPage, totalPages, tasks>>
               \/ \E n \in 1..MaxPagesFound :
                    /\ hdnImovByPage' = [k \in 1..n |-> TokenOf(k)]
                    /\ totalPages' = TotalPages(scrOpts.maxPages, n)
                    /\ tasks' = CreateTasks(hdnImovByPage', totalPages', 1)
                    /\ phase' = "pages"
  ELSE IF r.st = "thrown"
  THEN /\ phase' = "rejected"
       /\ mainReq' = NoRequest
       /\ UNCHANGED <<searchStatus, hdnImovByPage, totalPages, tasks>>
  ELSE /\ mainReq' = r
       /\ UNCHANGED <<phase, searchStatus, hdnImovByPage, totalPages, tasks>>

searchPostResponse ==
  /\ phase = "searchPost" /\ mainReq.st = "attempt"
  /\ \E status \in SiteStatuses : AfterSearchPost(AfterResponse(mainReq, status))
  /\ UNCHANGED <<scrOpts, sessionGetDone, searchIssued, results, detailTasks, finalItems, csv, returned>>
  /\ UNCHANGED <<outOfOrder, srvVars, httpVars, parseVars>>

searchPostThrows ==
  /\ phase = "searchPost" /\ mainReq.st = "attempt"
  /\ AfterSearchPost(AfterThrow(mainReq))
  /\ UNCHANGED <<scrOpts, sessionGetDone, searchIssued, results, detailTasks, finalItems, csv, returned>>
  /\ UNCHANGED <<outOfOrder, srvVars, httpVars, parseVars>>

searchPostBackoff ==
  /\ phase = "searchPost" /\ mainReq.st = "backoff"
  /\ AfterSearchPost(AfterBackoff(mainReq, scrOpts.retries))
  /\ UNCHANGED <<scrOpts, sessionGetDone, searchIssued, results, detailTasks, finalItems, csv, returned>>
  /\ UNCHANGED <<outOfOrder, srvVars, httpVars, parseVars>>

\* p-limit starts the oldest queued page task when the pool has a free
\* slot: fetchListPageHtml issues the list-page POST.
startListTask(k) ==
  /\ k \in 1..Len(tasks)
  /\ tasks[k].st = "queued"
  /\ \A j \in 1..(k - 1) : tasks[j].st # "queued"
  /\ Cardinality(Running(tasks)) < limit
  /\ tasks' = [tasks EXCEPT ![k].st = "running", ![k].req = NewRequest]
  /\ UNCHANGED <<scrOpts, phase, mainReq, sessionGetDone, searchIssued, searchStatus,
                 hdnImovByPage,
                 totalPages, results, detailTasks, finalItems, csv, returned>>
  /\ UNCHANGED <<outOfOrder, srvVars, httpVars, parseVars>>

\* One queued detail task per id: getDetail creates it through limitDetails
\* and caches its promise.
NewDetailTasks(ids) ==
  [j \in 1..Len(ids) |->
     [imovelId |-> ids[j], st |-> "queued", req |-> NoRequest, detail |-> {},
      failed |-> FALSE]]

\* scrapeCaixa after `await Promise.all(tasks)`: the rows are collected and
\* sorted; with withDetails every row asks getDetail for its id and the run
\* awaits them, else (and with no row at all) the CSV write begins.
AfterPages(ts) ==
  /\ results' = SortItems(FlattenPages(ts))
  /\ IF scrOpts.withDetails
     THEN /\ detailTasks' = NewDetailTasks(DetailIds(results'))
          /\ finalItems' = [i \in 1..Len(results') |-> PlainRow(results'[i])]
          /\ phase' = IF Len(results') = 0 THEN "writing" ELSE "details"
     ELSE /\ finalItems' = [i \in 1..Len(results') |-> PlainRow(results'[i])]
          /\ phase' = "writing"
          /\ UNCHANGED detailTasks

\* A page task that treats a failed fetch as a page without cards.
ListSettlesLenient(ok) == "fulfilled"

\* How the function given to limit settles: fetchListPageHtml throws 'List
\* page failed' or the error of the request, else the parsed items are returned.
ListSettles(ok) == IF ok THEN "fulfilled" ELSE "rejected"

\* A page task after an event of its request: it goes on, fulfils with the
\* parsed items (status 200) or rejects ('List page failed', or the request
\* threw); then Promise.all(tasks) rejects the run on the first rejection
\* and resolves once every task has fulfilled.
ListTaskStep(k, r, cards) ==
  LET settled == r.st \in {"returned", "thrown"}
      ok == r.st = "returned" /\ r.last = 200
      t == [tasks[k] EXCEPT
              !.req = IF settled THEN NoRequest ELSE r,
              !.st = IF ~settled THEN "running" ELSE ListSettles(ok),
              !.failed = settled /\ ~ok,
              !.items = IF ok THEN [i \in 1..Len(cards) |->
                                      [imovelId |-> cards[i], page |-> tasks[k].page]]
                        ELSE <<>>]
  IN /\ tasks' = [tasks EXCEPT ![k] = t]
     /\ outOfOrder' = (outOfOrder \/ (t.st = "fulfilled" /\
                                       \E j \in 1..(k - 1) : tasks[j].st # "fulfilled"))
     /\ IF phase = "pages" /\ t.st = "rejected"
        THEN /\ phase' = "rejected"
             /\ UNCHANGED <<results, detailTasks, finalItems>>
        ELSE IF phase = "pages" /\ AllFulfilled(tasks')
        THEN AfterPages(tasks')
        ELSE UNCHANGED <<phase, results, detailTasks, finalItems>>

listPageResponse(k) ==
  /\ k \in 1..Len(tasks)
  /\ tasks[k].st = "running" /\ tasks[k].req.st = "attempt"
  /\ \E status \in SiteStatuses, cards \in PageContents :
       /\ status # 200 => cards = <<>>
       /\ Len(FlattenPages(tasks)) + Len(cards) <= MaxCards
       /\ ListTaskStep(k, AfterResponse(tasks[k].req, status), cards)
  /\ UNCHANGED <<scrOpts, mainReq, sessionGetDone, searchIssued, searchStatus,
                 hdnImovByPage,
                 totalPages, csv, returned>>
  /\ UNCHANGED <<srvVars, httpVars, parseVars>>

listPageThrows(k) ==
  /\ k \in 1..Len(tasks)
  /\ tasks[k].st = "running" /\ tasks[k].req.st = "attempt"
  /\ ListTaskStep(k, AfterThrow(tasks[k].req), <<>>)
  /\ UNCHANGED <<scrOpts, mainReq, sessionGetDone, searchIssued, searchStatus,
                 hdnImovByPage,
                 totalPages, csv, returned>>
  /\ UNCHANGED <<srvVars, httpVars, parseVars>>

listPageBackoff(k) ==
  /\ k \in 1..Len(tasks)
  /\ tasks[k].st = "running" /\ tasks[k].req.st = "backoff"
  /\ ListTaskStep(k, AfterBackoff(tasks[k].req, scrOpts.retries), <<>>)
  /\ UNCHANGED <<scrOpts, mainReq, sessionGetDone, searchIssued, searchStatus,
                 hdnImovByPage,
                 totalPages, csv, returned>>
  /\ UNCHANGED <<srvVars, httpVars, parseVars>>

\* p-limit starts the oldest queued detail task when limitDetails has a free
\* slot: fetchDetailPageHtml issues the detail POST.
startDetailTask(j) ==
  /\ j \in 1..Len(detailTasks)
  /\ detailTasks[j].st = "queued"
  /\ \A i \in 1..(j - 1) : detailTasks[i].st # "queued"
  /\ Cardinality(Running(detailTasks)) < limitDetails
  /\ detailTasks' = [detailTasks EXCEPT ![j].st = "running", ![j].req = NewRequest]
  /\ UNCHANGED <<scrOpts, phase, mainReq, sessionGetDone, searchIssued, searchStatus,
                 hdnImovByPage,
                 totalPages, tasks, results, finalItems, csv, returned>>
  /\ UNCHANGED <<outOfOrder, srvVars, httpVars, parseVars>>

\* A detail task without the try/catch: a failed fetch rejects it.
DetailSettlesUncaught(ok) == IF ok THEN "fulfilled" ELSE "rejected"

\* How the function given to limitDetails settles: the try returns the
\* parsed extract, the catch logs the failure and returns {}.
DetailSettles(ok) == "fulfilled"

\* A detail task after an event of its request: it goes on, or fulfils with
\* the parsed extract (status 200) or, the failure caught and logged, with
\* {}; once every detail task has fulfilled the rows are built and the CSV
\* write begins (a rejected one would reject the Promise.all and the run).
DetailTaskStep(j, r, d) ==
  LET settled == r.st \in {"returned", "thrown"}
      ok == r.st = "returned" /\ r.last = 200
      t == [detailTasks[j] EXCEPT
              !.req = IF settled THEN NoRequest ELSE r,
              !.st = IF settled THEN DetailSettles(ok) ELSE "running",
              !.detail = IF ok THEN d ELSE {},
              !.failed = settled /\ ~ok]
  IN /\ detailTasks' = [detailTasks EXCEPT ![j] = t]
     /\ IF phase = "details" /\ t.st = "rejected"
        THEN /\ phase' = "rejected"
             /\ UNCHANGED finalItems
        ELSE IF phase = "details" /\ AllFulfilled(detailTasks')
        THEN /\ finalItems' = [i \in 1..Len(results) |->
                                 MergeDetail(results[i],
                                             DetailOf(detailTasks', results[i].imovelId))]
             /\ phase' = "writing"
        ELSE UNCHANGED <<phase, finalItems>>

detailResponse(j) ==
  /\ j \in 1..Len(detailTasks)
  /\ detailTasks[j].st = "running" /\ detailTasks[j].req.st = "attempt"
  /\ \E status \in SiteStatuses, d \in DetailExtracts :
       /\ status # 200 => d = {}
       /\ DetailTaskStep(j, AfterResponse(detailTasks[j].req, status), d)
  /\ UNCHANGED <<scrOpts, mainReq, sessionGetDone, searchIssued, searchStatus,
                 hdnImovByPage,
                 totalPages, tasks, results, csv, returned>>
  /\ UNCHANGED <<outOfOrder, srvVars, httpVars, parseVars>>

detailThrows(j) ==
  /\ j \in 1..Len(detailTasks)
  /\ detailTasks[j].st = "running" /\ detailTasks[j].req.st = "attempt"
  /\ DetailTaskStep(j, AfterThrow(detailTasks[j].req), {})
  /\ UNCHANGED <<scrOpts, mainReq, sessionGetDone, searchIssued, searchStatus,
                 hdnImovByPage,
                 totalPages, tasks, results, csv, returned>>
  /\ UNCHANGED <<outOfOrder, srvVars, httpVars, parseVars>>

detailBackoff(j) ==
  /\ j \in 1..Len(detailTasks)
  /\ detailTasks[j].st = "running" /\ detailTasks[j].req.st = "backoff"
  /\ DetailTaskStep(j, AfterBackoff(detailTasks[j].req, scrOpts.retries), {})
  /\ UNCHANGED <<scrOpts, mainReq, sessionGetDone, searchIssued, searchStatus,
                 hdnImovByPage,
                 totalPages, tasks, results, csv, returned>>
  /\ UNCHANGED <<outOfOrder, srvVars, httpVars, parseVars>>

\* await writeImoveisCsv(opts.out, finalItems) completes: the file holds
\* the CSV, and scrapeCaixa resolves with rows = finalItems.length.
writeImoveisCsv ==
  /\ phase = "writing"
  /\ csv' = Append(csv, Stringify(finalItems))
  /\ returned' = Len(finalItems)
  /\ phase' = "resolved"
  /\ UNCHANGED <<scrOpts, mainReq, sessionGetDone, searchIssued, searchStatus,
                 hdnImovByPage,
                 totalPages, tasks, results, detailTasks, finalItems>>
  /\ UNCHANGED <<outOfOrder, srvVars, httpVars, parseVars>>

\* writeFile rejects: nothing is written and the run rejects.
writeFileFails ==
  /\ phase = "writing"
  /\ phase' = "rejected"
  /\ UNCHANGED <<scrOpts, mainReq, sessionGetDone, searchIssued, searchStatus,
                 hdnImovByPage,
                 totalPages, tasks, results, detailTasks, finalItems, csv, returned>>
  /\ UNCHANGED <<outOfOrder, srvVars, httpVars, parseVars>>

ScrNext ==
  \/ scrapeCaixa
  \/ sessionGetResponse
  \/ sessionGetThrows
  \/ sessionGetBackoff
  \/ searchPostResponse
  \/ searchPostThrows
  \/ searchPostBackoff
  \/ \E k \in 1..MaxPagesFound : startListTask(k)
  \/ \E k \in 1..MaxPagesFound : listPageResponse(k)
  \/ \E k \in 1..MaxPagesFound : listPageThrows(k)
  \/ \E k \in 1..MaxPagesFound : listPageBackoff(k)
  \/ \E j \in 1..Cardinality(Ids) : startDetailTask(j)
  \/ \E j \in 1..Cardinality(Ids) : detailResponse(j)
  \/ \E j \in 1..Cardinality(Ids) : detailThrows(j)
  \/ \E j \in 1..Cardinality(Ids) : detailBackoff(j)
  \/ writeImoveisCsv
  \/ writeFileFails

\* A task's request has been issued / the task has settled.
Issued(t) == t.st # "queued"
Settled(t) == t.st \in {"fulfilled", "rejected"}

\* C3: the session GET completes before the search POST is issued; a list
\* page POST is issued only after the search POST returned 200; a detail
\* POST is issued only with withDetails and after all list-page tasks have
\* completed.
C3_RequestSequence ==
  /\ searchIssued => sessionGetDone
  /\ (\E k \in 1..Len(tasks) : Issued(tasks[k])) => searchStatus = 200
  /\ (\E j \in 1..Len(detailTasks) : Issued(detailTasks[j])) =>
       /\ scrOpts.withDetails
       /\ Len(tasks) = totalPages
       /\ \A k \in 1..Len(tasks) : Settled(tasks[k])

\* A detail POST is in flight after two list pages were fetched.
C3_Witness ==
  /\ Len(tasks) = 2
  /\ \E j \in 1..Len(detailTasks) :
       detailTasks[j].st = "running" /\ detailTasks[j].req.st = "attempt"

\* Tasks of a pool that have started and not settled.
Started(ts) == {k \in 1..Len(ts) : ts[k].st = "running"}

\* C4: at most `concurrency` list-page tasks and at most
\* `detailsConcurrency` detail tasks are running at any moment; a task
\* whose request is retried or backing off counts as running.
C4_PoolsBounded ==
  /\ Cardinality(Started(tasks)) <= scrOpts.concurrency
  /\ Cardinality(Started(detailTasks)) <= scrOpts.detailsConcurrency

\* With a pool of one, the first page task is backing off after a failed
\* attempt while the second one is still queued.
C4_Witness ==
  /\ scrOpts.concurrency = 1
  /\ Len(tasks) = 2
  /\ tasks[1].st = "running" /\ tasks[1].req.st = "backoff"
  /\ tasks[2].st = "queued"

\* C5: min(maxPages, tokens found) list pages are requested when maxPages
\* is given, else as many as tokens were found: pages 1..totalPages, page k
\* with token hdnImovByPage[k-1], each by one task; when the run resolves
\* every one of them has been requested.
C5_PagesRequested ==
  hdnImovByPage # <<>> =>
    /\ Len(tasks) = IF scrOpts.maxPages # 0
                    THEN (IF scrOpts.maxPages <= Len(hdnImovByPage)
                          THEN scrOpts.maxPages ELSE Len(hdnImovByPage))
                    ELSE Len(hdnImovByPage)
    /\ Len(tasks) = totalPages
    /\ \A k \in 1..Len(tasks) : tasks[k].page = k /\ tasks[k].hdnImov = hdnImovByPage[k]
    /\ phase = "resolved" => \A k \in 1..Len(tasks) : Issued(tasks[k])

\* maxPages = 1 cuts a search that found two tokens down to one page, whose
\* request has been issued.
C5_Witness ==
  /\ scrOpts.maxPages = 1
  /\ Len(hdnImovByPage) = 2
  /\ Len(tasks) = 1
  /\ Issued(tasks[1])

\* The number of cards parsed by the page tasks with a given id and page.
RECURSIVE CardsParsed(_, _, _)
CardsParsed(ts, id, page) ==
  IF ts = <<>> THEN 0
  ELSE Cardinality({i \in 1..Len(ts[1].items) :
                      ts[1].items[i].imovelId = id /\ ts[1].items[i].page = page})
       + CardsParsed(Tail(ts), id, page)

RowsWritten(file, id, page) ==
  Cardinality({i \in 1..Len(file.rows) :
                 file.rows[i].imovelId = id /\ file.rows[i].page = page})

\* C6: when scrapeCaixa resolves the CSV has been written exactly once,
\* after every list-page task and every detail task finished, with one row
\* per parsed card, and the returned rows is the number of rows written.
C6_CsvWrittenOnce ==
  /\ Len(csv) <= 1
  /\ Len(csv) = 1 =>
       /\ \A k \in 1..Len(tasks) : Settled(tasks[k])
       /\ \A j \in 1..Len(detailTasks) : Settled(detailTasks[j])
  /\ phase = "resolved" =>
       /\ Len(csv) = 1
       /\ \A id \in Ids, page \in 1..MaxPagesFound :
            RowsWritten(csv[1], id, page) = CardsParsed(tasks, id, page)
       /\ returned = Len(csv[1].rows)

\* A run with details resolved after writing two rows for the same imovelId.
C6_Witness ==
  /\ phase = "resolved"
  /\ scrOpts.withDetails
  /\ returned = 2
  /\ csv[1].rows[1].imovelId = csv[1].rows[2].imovelId

\* C7: without withDetails no detail request is issued; with withDetails a
\* detail request is issued for every distinct imovelId among the rows.
C7_DetailRequests ==
  /\ ~scrOpts.withDetails => detailTasks = <<>>
  /\ (scrOpts.withDetails /\ phase \in {"details", "writing", "resolved"}) =>
       \A i \in 1..Len(results) :
         \E j \in 1..Len(detailTasks) :
           /\ detailTasks[j].imovelId = results[i].imovelId
           /\ phase # "details" => Issued(detailTasks[j])

\* A run with details resolved with rows of two different ids.
C7_Witness ==
  /\ phase = "resolved"
  /\ scrOpts.withDetails
  /\ Len(detailTasks) = 2
  /\ \A j \in 1..2 : Settled(detailTasks[j])

\* C8: with withDetails the CSV written has, besides the list columns, the
\* columns taken from the detail page for every row whose detail fetch
\* succeeded.
C8_DetailColumnsWritten ==
  (phase = "resolved" /\ scrOpts.withDetails) =>
    \A i \in 1..Len(finalItems) :
      \A key \in finalItems[i].detailKeys :
        /\ \E c \in 1..Len(csv[1].columns) : csv[1].columns[c] = key
        /\ key \in csv[1].rows[i].detailKeys

\* C12: with withDetails no two detail tasks have the same imovelId, so an
\* id starts at most one detail task whatever the interleaving; rows with
\* the same imovelId get the same detail result, the empty one of a failed
\* fetch included.
C12_OneDetailPerId ==
  /\ \A i, j \in 1..Len(detailTasks) :
       detailTasks[i].imovelId = detailTasks[j].imovelId => i = j
  /\ (scrOpts.withDetails /\ phase \in {"writing", "resolved"}) =>
       /\ \A a, b \in 1..Len(finalItems) :
            finalItems[a].imovelId = finalItems[b].imovelId =>
              finalItems[a].detailKeys = finalItems[b].detailKeys
       /\ \A a \in 1..Len(finalItems), j \in 1..Len(detailTasks) :
            (detailTasks[j].imovelId = finalItems[a].imovelId /\ detailTasks[j].failed) =>
              finalItems[a].detailKeys = {}

\* Two rows of different pages share an id: one detail task served both.
C12_Witness ==
  /\ phase = "resolved"
  /\ scrOpts.withDetails
  /\ Len(finalItems) = 2
  /\ finalItems[1].imovelId = finalItems[2].imovelId
  /\ finalItems[1].page # finalItems[2].page
  /\ Len(detailTasks) = 1
  /\ finalItems[1].detailKeys # {}
  /\ finalItems[2].detailKeys = finalItems[1].detailKeys

\* a <= b as strings: equal, or at the first position where they differ a
\* has ended or has the smaller character.
LexLeq(a, b) ==
  \/ a = b
  \/ \E n \in 1..Len(b) :
       /\ n - 1 <= Len(a)
       /\ SubSeq(a, 1, n - 1) = SubSeq(b, 1, n - 1)
       /\ (n > Len(a) \/ a[n] < b[n])

\* C13: the rows written are in ascending page number and, within a page,
\* in ascending imovelId by string comparison, and they are the parsed
\* cards, whatever the order in which the page fetches completed.
C13_RowOrder ==
  phase = "resolved" =>
    /\ \A a, b \in 1..Len(csv[1].rows) :
         a < b =>
           \/ csv[1].rows[a].page < csv[1].rows[b].page
           \/ /\ csv[1].rows[a].page = csv[1].rows[b].page
              /\ LexLeq(csv[1].rows[a].imovelId, csv[1].rows[b].imovelId)
    /\ \A id \in Ids, page \in 1..MaxPagesFound :
         CardsParsed(tasks, id, page) = RowsWritten(csv[1], id, page)

\* Page 2 was fetched before page 1; the rows written are page 1 then page 2.
C13_Witness ==
  /\ phase = "resolved"
  /\ outOfOrder
  /\ Len(csv[1].rows) = 2
  /\ csv[1].rows[1].page = 1 /\ csv[1].rows[2].page = 2

\* One page listed "9" before "10"; the rows written are "10" then "9".
C13_WitnessIds ==
  /\ phase = "resolved"
  /\ Len(tasks) = 1
  /\ Len(tasks[1].items) = 2
  /\ tasks[1].items[1].imovelId = <<9>> /\ tasks[1].items[2].imovelId = <<1, 0>>
  /\ csv[1].rows[1].imovelId = <<1, 0>> /\ csv[1].rows[2].imovelId = <<9>>

\* C14: once the search POST has ended with a status other than 200 the
\* run is rejected, no list-page or detail request has been or will be
\* issued, and no CSV is written.
C14_SearchFailureRejects ==
  (searchStatus # None /\ searchStatus # 200) =>
    /\ phase = "rejected"
    /\ tasks = <<>>
    /\ detailTasks = <<>>
    /\ csv = <<>>

\* The search POST was retried and ended with 500.
C14_Witness ==
  /\ searchIssued
  /\ searchStatus = 500
  /\ scrOpts.retries >= 1
  /\ phase = "rejected"

\* C15: a detail fetch that fails does not fail the scrape: no detail task
\* rejects, the run never rejects while the details are awaited, and when
\* it resolves the rows of a failed id are written with list fields only.
C15_DetailFailureTolerated ==
  /\ [](\A j \in 1..Len(detailTasks) : detailTasks[j].st # "rejected")
  /\ [][phase = "details" => phase' \in {"details", "writing"}]_vars
  /\ [](phase = "resolved" =>
         \A j \in 1..Len(detailTasks), a \in 1..Len(csv[1].rows) :
           (detailTasks[j].failed /\ csv[1].rows[a].imovelId = detailTasks[j].imovelId) =>
             /\ finalItems[a].detailKeys = {}
             /\ csv[1].rows[a].detailKeys = {})

\* One detail fetch ended with 404 and another succeeded; the run resolved
\* and wrote both rows.
C15_Witness ==
  /\ phase = "resolved"
  /\ Len(detailTasks) = 2
  /\ \E j \in 1..2 : detailTasks[j].failed /\ ~detailTasks[3 - j].failed
  /\ Len(csv[1].rows) = 2
  /\ \E a \in 1..2 : finalItems[a].detailKeys = {} /\ finalItems[3 - a].detailKeys # {}

\* C16: once a list-page request has ended with a status other than 200 or
\* has thrown, the run is rejected and no CSV is written, whatever the
\* other pages did.
C16_PageFailureRejects ==
  (\E k \in 1..Len(tasks) : tasks[k].failed) =>
    /\ phase = "rejected"
    /\ detailTasks = <<>>
    /\ csv = <<>>
    /\ returned = None

\* Page 1 was fetched and parsed, page 2 failed: the run is rejected.
C16_Witness ==
  /\ Len(tasks) = 2
  /\ tasks[1].st = "fulfilled" /\ tasks[1].items # <<>>
  /\ tasks[2].failed
  /\ phase = "rejected"
  /\ csv = <<>>

(***************************************************************************)
(* parseSearchResponse: the pagination tokens of a search response         *)
(***************************************************************************)

\* Largest N for which a response may carry an input hdnImov{N}.
MaxHiddenInputs == 3

\* The text of #hdnQtdPag / #hdnQtdRegistros that is not an integer.
NotANumber == -2

\* The value attribute of an input: None when the input or the attribute is
\* missing, 0 for the empty string, else the token (hdnImov{N}) or the
\* integer text (the two counters).
SearchResponses ==
  [qtdPag : {None, 0, 2, NotANumber}, qtdRegistros : {None, 5, NotANumber},
   hdnImov : [1..MaxHiddenInputs -> {None, 0} \cup {TokenOf(k) : k \in 1..MaxHiddenInputs}]]

\* $(`#hdnImov${i}`).attr("value") for any i >= 1
AttrValue(html, i) == IF i \in DOMAIN html.hdnImov THEN html.hdnImov[i] ELSE None

\* parseIntStrict: a missing or empty value is 0 (Number("") is 0), an
\* integer text is its number, anything else throws.
ParseIntThrows(raw) == raw = NotANumber
parseIntStrict(raw) == IF raw = None THEN 0 ELSE raw

\* A loop that skips missing inputs instead of stopping at the first one.
RECURSIVE CollectTokensSkipping(_, _)
CollectTokensSkipping(html, i) ==
  IF i > MaxHiddenInputs THEN <<>>
  ELSE (IF AttrValue(html, i) \in {None, 0} THEN <<>> ELSE <<AttrValue(html, i)>>)
       \o CollectTokensSkipping(html, i + 1)

\* for (let i = 1; ; i++) { const v = ...; if (!v) break; hdnImovByPage.push(v); }
RECURSIVE CollectTokens(_, _)
CollectTokens(html, i) ==
  IF AttrValue(html, i) \in {None, 0} THEN <<>>
  ELSE <<AttrValue(html, i)>> \o CollectTokens(html, i + 1)

\* The value the parser has not produced yet.
NotParsed == [threw |-> FALSE, called |-> FALSE, hdnImovByPage |-> <<>>, qtdPag |-> 0,
              qtdRegistros |-> 0]

\* function parseSearchResponse(html): the two counters are parsed first,
\* then the tokens are collected; it throws when there is none.
parseSearchResponse(html) ==
  LET tokens == CollectTokens(html, 1)
  IN IF ParseIntThrows(html.qtdPag) \/ ParseIntThrows(html.qtdRegistros) \/ Len(tokens) = 0
     THEN [NotParsed EXCEPT !.called = TRUE, !.threw = TRUE]
     ELSE [threw |-> FALSE, called |-> TRUE, hdnImovByPage |-> tokens,
           qtdPag |-> IF parseIntStrict(html.qtdPag) > 0 THEN parseIntStrict(html.qtdPag)
                      ELSE Len(tokens),
           qtdRegistros |-> parseIntStrict(html.qtdRegistros)]

ParseInit ==
  /\ searchHtml \in SearchResponses
  /\ parsed = NotParsed

\* runSearch: return parseSearchResponse(res.text)
parseSearch ==
  /\ ~parsed.called
  /\ parsed' = parseSearchResponse(searchHtml)
  /\ UNCHANGED searchHtml
  /\ UNCHANGED <<srvVars, httpVars, scrVars>>

ParseNext == parseSearch

\* hdnImov1..hdnImovN are all present and non-empty.
AllPresent(html, n) ==
  \A i \in 1..n : html.hdnImov[i] # None /\ html.hdnImov[i] # 0

\* The largest N such that hdnImov1..hdnImovN are all present and non-empty.
LargestN(html) ==
  CHOOSE n \in 0..MaxHiddenInputs :
    /\ AllPresent(html, n)
    /\ \A m \in 0..MaxHiddenInputs : AllPresent(html, m) => m <= n

\* C18: what parseSearchResponse returns as hdnImovByPage is the values of
\* hdnImov1..hdnImovN in order, for the largest N such that they are all
\* present and non-empty; it throws when N is 0.
C18_TokensUpToFirstGap ==
  parsed.called =>
    /\ LargestN(searchHtml) = 0 => parsed.threw
    /\ ~parsed.threw =>
         /\ Len(parsed.hdnImovByPage) = LargestN(searchHtml)
         /\ \A i \in 1..LargestN(searchHtml) :
              parsed.hdnImovByPage[i] = searchHtml.hdnImov[i]

\* hdnImov1 is present, hdnImov2 is empty and hdnImov3 is present: one
\* token is returned.
C18_Witness ==
  /\ parsed.called /\ ~parsed.threw
  /\ searchHtml.hdnImov[1] = TokenOf(1)
  /\ searchHtml.hdnImov[2] = 0
  /\ searchHtml.hdnImov[3] = TokenOf(3)
  /\ parsed.hdnImovByPage = <<TokenOf(1)>>

\* No token at position 1: the parser threw although hdnImov2 is present.
C18_WitnessThrow ==
  /\ parsed.called /\ parsed.threw
  /\ searchHtml.hdnImov[1] = None
  /\ searchHtml.hdnImov[2] = TokenOf(2)
  /\ searchHtml.qtdPag = 2 /\ searchHtml.qtdRegistros = 5

(***************************************************************************)
(* Specifications: each part runs with the other parts at rest.             *)
(***************************************************************************)

\* The server before any request.
SrvAtRest ==
  /\ srvBody = [hasFileBase |-> FALSE, outFileBase |-> <<>>, uf |-> <<"a", "a">>,
                cidade |-> <<"a">>]
  /\ srvRoute = "none"
  /\ srvInput = <<>>
  /\ srvOutPath = <<>>
  /\ srvStatus = 0
  /\ srvName = <<>>
  /\ srvRead = <<>>

\* A client nobody calls.
HttpAtRest ==
  /\ HttpInit
  /\ opts = [timeoutMs |-> 1000, retries |-> 0, minDelayMs |-> 0]
  /\ random = "low"
  /\ callers = 1

\* No run of scrapeCaixa.
ScrAtRest ==
  /\ ScrInit
  /\ scrOpts = [concurrency |-> 1, detailsConcurrency |-> 1, maxPages |-> 0,
                withDetails |-> FALSE, retries |-> 0]

\* The parser not called.
ParseAtRest ==
  /\ searchHtml = [qtdPag |-> None, qtdRegistros |-> None,
                   hdnImov |-> [i \in 1..MaxHiddenInputs |-> None]]
  /\ parsed = NotParsed

\* The server handling a request.
InitServer ==
  /\ SrvInit
  /\ HttpAtRest
  /\ ScrAtRest
  /\ ParseAtRest

SpecServer == InitServer /\ [][SrvNext]_vars

\* The server handling a request for an output file.
InitOutputs ==
  /\ OutputsInit
  /\ HttpAtRest
  /\ ScrAtRest
  /\ ParseAtRest

SpecOutputs == InitOutputs /\ [][OutputsNext]_vars

\* Concurrent callers on one client.
InitHttp ==
  /\ HttpInit
  /\ callers = NumCallers
  /\ SrvAtRest
  /\ ScrAtRest
  /\ ParseAtRest

SpecHttp == InitHttp /\ [][HttpNext]_vars

\* One caller alone on the client.
InitRequest ==
  /\ HttpInit
  /\ callers = 1
  /\ SrvAtRest
  /\ ScrAtRest
  /\ ParseAtRest

SpecRequest == InitRequest /\ [][HttpNext]_vars

\* One caller whose attempts all fail.
InitBackoff ==
  /\ BackoffInit
  /\ SrvAtRest
  /\ ScrAtRest
  /\ ParseAtRest

SpecBackoff == InitBackoff /\ [][BackoffNext]_vars

\* One run of scrapeCaixa.
InitScrape ==
  /\ ScrInit
  /\ SrvAtRest
  /\ HttpAtRest
  /\ ParseAtRest

SpecScrape == InitScrape /\ [][ScrNext]_vars

\* parseSearchResponse applied to a search response.
InitParse ==
  /\ ParseInit
  /\ SrvAtRest
  /\ HttpAtRest
  /\ ScrAtRest

SpecParse == InitParse /\ [][ParseNext]_vars

====
